---- MODULE Spec2Model ----
(***************************************************************************)
(* A model of the .vscode configuration generator                          *)
(* (generate_vscode_files.py): profile loading, value resolution, the      *)
(* destructive reset of the build and output directories, and placeholder  *)
(* substitution into the embedded templates.                               *)
(*                                                                         *)
(* Text is modelled as a sequence of tokens.  A token is a string that     *)
(* the program never looks inside: the tokens "${" and "}" delimit a       *)
(* placeholder, "/" separates path components, and "(", ")", " ", "\n"     *)
(* and the keywords of the two name-detection patterns are tokens of       *)
(* their own.  The empty Python string is the empty sequence.              *)
(***************************************************************************)
EXTENDS Integers, Sequences, FiniteSets, TLC

VARIABLES
    platformFile,   \* ROOT/platform.json: [state, doc]
    sysname,        \* what platform.system() returns, a sequence of characters
    cmakeFile,      \* ROOT/CMakeLists.txt: [state, stmts, content]
    dirs,           \* the directories under ROOT, each a sequence of path components
    files,          \* the plain files under ROOT: path -> content
    pc,             \* the position of the run inside main()
    cfg,            \* main's local cfg: [some, val] (some = FALSE is Python's None)
    debug_build_dir,\* main's local debug_build_dir, as path components under ROOT
    mapping,        \* main's local mapping: [set, keys, val]
    ti,             \* the index into TEMPLATES of the next template to write
    text,           \* replace_placeholders' argument text
    new_text,       \* replace_placeholders' result
    runs,           \* how many runs of main have ended
    exitStatus,     \* the exit status of the last run that ended
    dirs0,          \* observation: dirs when the current run started
    files0,         \* observation: files when the current run started
    prevOut         \* observation: the output files as the previous completed run left them

vars == <<platformFile, sysname, cmakeFile, dirs, files, pc, cfg, debug_build_dir, mapping, ti,
          text, new_text, runs, exitStatus, dirs0, files0, prevOut>>

----------------------------------------------------------------------------
(* Bounds of the model.                                                    *)

\* how many runs of main in succession a behaviour holds
MaxRuns == 2
\* how many statements a build-description text holds
MaxStmts == 2

----------------------------------------------------------------------------
(* Sequences and maps.                                                     *)

IsPrefix(p, s) == Len(p) <= Len(s) /\ SubSeq(s, 1, Len(p)) = p

EmptyMap == [k \in {} |-> <<>>]

\* dict.get(key, default)
Get(d, key, default) == IF key \in DOMAIN d THEN d[key] ELSE default

\* Python's None beside a value: cfg.get(key) with no default
None == [some |-> FALSE, val |-> EmptyMap]
Some(v) == [some |-> TRUE, val |-> v]

----------------------------------------------------------------------------
(* platform.system() and str.lower().                                      *)

LowerOf ==
    ("A" :> "a") @@ ("B" :> "b") @@ ("C" :> "c") @@ ("D" :> "d") @@ ("F" :> "f")
    @@ ("G" :> "g") @@ ("I" :> "i") @@ ("J" :> "j") @@ ("L" :> "l") @@ ("M" :> "m")
    @@ ("N" :> "n") @@ ("S" :> "s") @@ ("T" :> "t") @@ ("W" :> "w") @@ ("Y" :> "y")

lower(s) == [i \in 1..Len(s) |-> IF s[i] \in DOMAIN LowerOf THEN LowerOf[s[i]] ELSE s[i]]

\* sub in s, for strings
Contains(s, sub) ==
    \E i \in 1..(Len(s) - Len(sub) + 1) : SubSeq(s, i, i + Len(sub) - 1) = sub

LINUX == <<"l", "i", "n", "u", "x">>
WINDOWS == <<"w", "i", "n", "d", "o", "w", "s">>

\* the strings platform.system() returns on the hosts Python runs on
SysNames ==
    { <<"L", "i", "n", "u", "x">>,
      <<"W", "i", "n", "d", "o", "w", "s">>,
      <<"D", "a", "r", "w", "i", "n">>,
      <<"F", "r", "e", "e", "B", "S", "D">>,
      <<"J", "a", "v", "a">>,
      <<"C", "Y", "G", "W", "I", "N", "_", "N", "T", "-", "1", "0", ".", "0">>,
      <<"M", "S", "Y", "S", "_", "N", "T", "-", "1", "0", ".", "0">>,
      <<>> }

----------------------------------------------------------------------------
(* The platform-profile document and its sub-profiles.                     *)

Fields ==
    {"toolchain_gcc", "toolchain_bin_path", "gdb", "openocd", "build_dir",
     "compile_commands", "stm32_device", "stm32_target", "elf_name", "svd_file"}

OsKeys == {"linux", "windows", "darwin"}

\* a value a profile written for operating system os gives field f
FieldValue(os, f) ==
    CASE f = "toolchain_gcc" ->
           IF os = "windows"
           THEN <<"C:", "/", "gcc-arm", "/", "bin", "/", "arm-none-eabi-gcc.exe">>
           ELSE <<"/", "opt", "/", "gcc-arm", "/", "bin", "/", "arm-none-eabi-gcc">>
      [] f = "toolchain_bin_path" ->
           IF os = "windows" THEN <<"C:", "/", "gcc-arm", "/", "bin">>
           ELSE <<"/", "opt", "/", "gcc-arm", "/", "bin">>
      [] f = "gdb" ->
           IF os = "windows" THEN <<"C:", "/", "gcc-arm", "/", "bin", "/", "gdb.exe">>
           ELSE <<"/", "usr", "/", "bin", "/", "gdb-multiarch">>
      [] f = "openocd" ->
           IF os = "windows" THEN <<"C:", "/", "openocd", "/", "openocd.exe">>
           ELSE <<"/", "usr", "/", "bin", "/", "openocd">>
      [] f = "build_dir" -> <<"build">>
      [] f = "compile_commands" ->
           <<"${", "workspaceFolder", "}", "/", "build", "/", "compile_commands.json">>
      [] f = "stm32_device" -> <<"STM32F407xx">>
      [] f = "stm32_target" -> <<"stm32f4x.cfg">>
      [] f = "elf_name" -> <<"app_", os>>
      [] f = "svd_file" -> <<"STM32F407.svd">>

\* the values of "elf_name" the model draws: the empty string and a name
ElfNameValues == { <<>>, <<"app">> }

\* the sub-profile of os that sets the fields D, with build_dir bd and elf_name elf
Profile(os, D, bd, elf) ==
    [f \in D |-> CASE f = "build_dir" -> bd
                   [] f = "elf_name" -> elf
                   [] OTHER -> FieldValue(os, f)]

FullProfile(os) == Profile(os, Fields, <<"build">>, <<"app_", os>>)

\* the states of ROOT/platform.json: absent, not JSON, JSON that is no object
\* (an array, say), and a JSON object
Missing == [state |-> "missing", doc |-> EmptyMap]
Malformed == [state |-> "malformed", doc |-> EmptyMap]
JsonArray == [state |-> "array", doc |-> EmptyMap]
Document(d) == [state |-> "object", doc |-> d]

\* the documents over the keys K, each key's sub-profile drawn from P[key]
Documents(K, P) ==
    UNION { { Document(d) : d \in { e \in [D -> UNION {P[k] : k \in D}] :
                                      \A k \in D : e[k] \in P[k] } } : D \in SUBSET K }

----------------------------------------------------------------------------
(* load_platform_config                                                    *)

HostKey_ElseWindows(sys) ==
    IF Contains(lower(sys), LINUX) THEN "linux" ELSE "windows"

\* lines 281-287: the key of the host's operating system
HostKey(sys) ==
    LET s == lower(sys) IN
    IF Contains(s, LINUX) THEN "linux"
    ELSE IF Contains(s, WINDOWS) THEN "windows"
    ELSE "linux"

load_platform_config_DefaultOnError(pf, sys) ==
    IF pf.state # "object"
    THEN [raised |-> FALSE, ret |-> Some(EmptyMap)]
    ELSE LET key == HostKey(sys)
             dflt == IF "linux" \in DOMAIN pf.doc THEN Some(pf.doc["linux"]) ELSE None
         IN [raised |-> FALSE,
             ret |-> IF key \in DOMAIN pf.doc THEN Some(pf.doc[key]) ELSE dflt]

\* lines 278-288: [raised, ret]; open() and json.load() raise on a missing or
\* malformed file, and cfg.get raises AttributeError on JSON that is no object
load_platform_config(pf, sys) ==
    IF pf.state # "object"
    THEN [raised |-> TRUE, ret |-> None]
    ELSE LET key == HostKey(sys)
             dflt == IF "linux" \in DOMAIN pf.doc THEN Some(pf.doc["linux"]) ELSE None
         IN [raised |-> FALSE,
             ret |-> IF key \in DOMAIN pf.doc THEN Some(pf.doc[key]) ELSE dflt]

----------------------------------------------------------------------------
(* ROOT/CMakeLists.txt and detect_elf_name.                                *)

\* the statements the model writes into a build description
SetStmt(arg, loose) == [kind |-> "set", arg |-> arg, extra |-> FALSE, loose |-> loose]
ProjectStmt(arg, extra, loose) ==
    [kind |-> "project", arg |-> arg, extra |-> extra, loose |-> loose]
OtherStmt(which) == [kind |-> which, arg |-> <<>>, extra |-> FALSE, loose |-> FALSE]

VariableRef == <<"${", "PROJECT_NAME", "}">>

Statements ==
    { SetStmt(<<"StepperDEV">>, FALSE), SetStmt(<<"StepperDEV">>, TRUE),
      SetStmt(VariableRef, FALSE),
      ProjectStmt(<<"blinky">>, FALSE, FALSE), ProjectStmt(<<"blinky">>, FALSE, TRUE),
      ProjectStmt(VariableRef, FALSE, FALSE),
      ProjectStmt(<<"blinky">>, TRUE, FALSE),
      OtherStmt("cmake_minimum_required"), OtherStmt("unset") }

\* the text of a statement
Render(st) ==
    CASE st.kind = "set" ->
           IF st.loose
           THEN <<"set", " ", "(", " ", "CMAKE_PROJECT_NAME", " ", "\t">> \o st.arg
                \o <<" ", ")", "\n">>
           ELSE <<"set", "(", "CMAKE_PROJECT_NAME", " ">> \o st.arg \o <<")", "\n">>
      [] st.kind = "project" ->
           (IF st.loose THEN <<"project", " ", "(", "\n", " ">> ELSE <<"project", "(">>)
           \o st.arg
           \o (IF st.extra THEN <<" ", "C">> ELSE <<>>)
           \o (IF st.loose THEN <<" ", ")", "\n">> ELSE <<")", "\n">>)
      [] st.kind = "cmake_minimum_required" ->
           <<"cmake_minimum_required", "(", "VERSION", " ", "3.22", ")", "\n">>
      [] st.kind = "unset" ->
           <<"un", "set", "(", "CMAKE_PROJECT_NAME", ")", "\n">>

RECURSIVE RenderAll(_)
RenderAll(sts) == IF sts = <<>> THEN <<>> ELSE Render(Head(sts)) \o RenderAll(Tail(sts))

\* the states of ROOT/CMakeLists.txt: absent, not UTF-8 text, and a text
CmakeAbsent == [state |-> "absent", stmts |-> <<>>, content |-> <<>>]
CmakeUndecodable == [state |-> "undecodable", stmts |-> <<>>, content |-> <<>>]
CmakeText(sts) == [state |-> "text", stmts |-> sts, content |-> RenderAll(sts)]

CmakeTexts(n) == { CmakeText(sts) : sts \in UNION { [1..k -> Statements] : k \in 0..n } }

IsSpace(t) == t \in {" ", "\n", "\t"}

\* \s* from position i: the position of the first token that is no whitespace
RECURSIVE SkipSpace(_, _)
SkipSpace(c, i) ==
    IF i <= Len(c) /\ IsSpace(c[i]) THEN SkipSpace(c, i + 1) ELSE i

\* [^\s\)]+ from position i (greedy): the position after the last token of the run
RECURSIVE SkipName(_, _)
SkipName(c, i) ==
    IF i <= Len(c) /\ ~IsSpace(c[i]) /\ c[i] # ")" THEN SkipName(c, i + 1) ELSE i

At(c, i) == IF i >= 1 /\ i <= Len(c) THEN c[i] ELSE "<eof>"

NoMatch == [matched |-> FALSE, group |-> <<>>]

\* line 300: set\s*\(\s*CMAKE_PROJECT_NAME\s+([^\s\)]+)\s*\) matched at position i
MatchSetAt(c, i) ==
    LET j1 == SkipSpace(c, i + 1)
        j2 == SkipSpace(c, j1 + 1)
        j3 == SkipSpace(c, j2 + 1)
        j4 == SkipName(c, j3)
        j5 == SkipSpace(c, j4)
    IN IF /\ At(c, i) = "set"
          /\ At(c, j1) = "("
          /\ At(c, j2) = "CMAKE_PROJECT_NAME"
          /\ j3 > j2 + 1
          /\ j4 > j3
          /\ At(c, j5) = ")"
       THEN [matched |-> TRUE, group |-> SubSeq(c, j3, j4 - 1)]
       ELSE NoMatch

\* line 305: project\s*\(\s*([^\s\)]+)\s*\) matched at position i
MatchProjectAt(c, i) ==
    LET j1 == SkipSpace(c, i + 1)
        j2 == SkipSpace(c, j1 + 1)
        j3 == SkipName(c, j2)
        j4 == SkipSpace(c, j3)
    IN IF /\ At(c, i) = "project"
          /\ At(c, j1) = "("
          /\ j3 > j2
          /\ At(c, j4) = ")"
       THEN [matched |-> TRUE, group |-> SubSeq(c, j2, j3 - 1)]
       ELSE NoMatch

\* re.search: the match at the leftmost position that has one
SearchSet(c) ==
    LET hits == {i \in 1..Len(c) : MatchSetAt(c, i).matched}
    IN IF hits = {} THEN NoMatch
       ELSE MatchSetAt(c, CHOOSE i \in hits : \A j \in hits : i <= j)

SearchProject(c) ==
    LET hits == {i \in 1..Len(c) : MatchProjectAt(c, i).matched}
    IN IF hits = {} THEN NoMatch
       ELSE MatchProjectAt(c, CHOOSE i \in hits : \A j \in hits : i <= j)

\* line 309: project_name.startswith('${') and project_name.endswith('}')
IsVariableReference(name) ==
    Len(name) >= 1 /\ name[1] = "${" /\ name[Len(name)] = "}"

NoName == [raised |-> FALSE, some |-> FALSE, val |-> <<>>]
Name(n) == [raised |-> FALSE, some |-> TRUE, val |-> n]
ReadRaised == [raised |-> TRUE, some |-> FALSE, val |-> <<>>]

detect_elf_name_ProjectFirst(cm) ==
    IF cm.state = "absent" THEN NoName
    ELSE IF cm.state = "undecodable" THEN ReadRaised
    ELSE LET p == SearchProject(cm.content)
             m == SearchSet(cm.content)
         IN IF p.matched /\ ~IsVariableReference(p.group) THEN Name(p.group)
            ELSE IF m.matched THEN Name(m.group)
            ELSE NoName

\* lines 290-313: the detected name, or None; f.read() raises UnicodeDecodeError
\* on a file that is not UTF-8 text
detect_elf_name(cm) ==
    IF cm.state = "absent" THEN NoName
    ELSE IF cm.state = "undecodable" THEN ReadRaised
    ELSE LET m == SearchSet(cm.content)
             p == SearchProject(cm.content)
         IN IF m.matched THEN Name(m.group)
            ELSE IF p.matched
                 THEN IF IsVariableReference(p.group) THEN NoName ELSE Name(p.group)
                 ELSE NoName

----------------------------------------------------------------------------
(* The value resolver: lines 341-384 of main.                              *)

\* os.path.dirname on a path whose separators are the tokens "/": the path up
\* to its last separator, without trailing separators unless it is only separators
dirname(p) ==
    LET seps == {i \in 1..Len(p) : p[i] = "/"}
        i == IF seps = {} THEN 0 ELSE CHOOSE k \in seps : \A j \in seps : j <= k
        head == SubSeq(p, 1, i)
        keep == {k \in 1..Len(head) : head[k] # "/"}
        n == IF keep = {} THEN 0 ELSE CHOOSE k \in keep : \A j \in keep : j <= k
    IN IF keep = {} THEN head ELSE SubSeq(head, 1, n)

\* the order in which main inserts the keys into mapping (lines 371-384)
MappingKeys ==
    <<"TOOLCHAIN_GCC", "TOOLCHAIN_BIN_PATH", "GDB_PATH", "OPENOCD_PATH", "BUILD_DIR",
      "COMPILE_COMMANDS", "STM32_DEVICE", "STM32_TARGET", "ELF_NAME", "SVD_FILE",
      "KILL_OPENOCD_CMD", "KILL_OPENOCD_ARGS">>

\* lines 342-350
ResolveElfName(c, cm) ==
    LET configured == Get(c, "elf_name", <<>>)
        detected == detect_elf_name(cm)
    IN IF configured # <<>> THEN configured
       ELSE IF detected.some /\ detected.val # <<>> THEN detected.val
       ELSE <<"firmware">>

\* lines 342-344: the resolver raises when detect_elf_name is called and raises
ResolveRaises(c, cm) ==
    Get(c, "elf_name", <<>>) = <<>> /\ detect_elf_name(cm).raised

\* lines 353-360
ResolveToolchainBinPath(c) ==
    LET configured == Get(c, "toolchain_bin_path", <<>>)
        toolchain_gcc == Get(c, "toolchain_gcc", <<>>)
    IN IF configured # <<>> THEN configured
       ELSE IF toolchain_gcc # <<>> THEN dirname(toolchain_gcc)
       ELSE <<>>

\* lines 363-369
KillCmd(sys) ==
    IF Contains(lower(sys), WINDOWS) THEN <<"taskkill">> ELSE <<"pkill">>

KillArgs(sys) ==
    IF Contains(lower(sys), WINDOWS)
    THEN <<"\"/IM\",\"openocd.exe\",\"/F\"">>
    ELSE <<"\"-f\",\"openocd\"">>

\* line 376: the default of BUILD_DIR
DefaultBuildDirValue == <<"build", "/", "Debug">>

\* the mapping of the older variant, .vscode/generate_vscode.py lines 226-232
ResolveValues_OlderVariant(c, cm, sys) ==
    ("TOOLCHAIN_GCC" :> Get(c, "toolchain_gcc", <<>>))
    @@ ("GDB_PATH" :> Get(c, "gdb", <<>>))
    @@ ("OPENOCD_PATH" :> Get(c, "openocd", <<>>))
    @@ ("BUILD_DIR" :> Get(c, "build_dir", DefaultBuildDirValue))
    @@ ("COMPILE_COMMANDS" :>
          Get(c, "compile_commands",
              <<"${", "workspaceFolder", "}", "/", "build", "/", "Debug", "/",
                "compile_commands.json">>))

\* lines 341-384: the mapping main builds from the sub-profile c
ResolveValues(c, cm, sys) ==
    ("TOOLCHAIN_GCC" :> Get(c, "toolchain_gcc", <<>>))
    @@ ("TOOLCHAIN_BIN_PATH" :> ResolveToolchainBinPath(c))
    @@ ("GDB_PATH" :> Get(c, "gdb", <<>>))
    @@ ("OPENOCD_PATH" :> Get(c, "openocd", <<>>))
    @@ ("BUILD_DIR" :> Get(c, "build_dir", DefaultBuildDirValue))
    @@ ("COMPILE_COMMANDS" :>
          Get(c, "compile_commands",
              <<"${", "workspaceFolder", "}", "/", "build", "/", "Debug", "/",
                "compile_commands.json">>))
    @@ ("STM32_DEVICE" :> Get(c, "stm32_device", <<"STM32L476xx">>))
    @@ ("STM32_TARGET" :> Get(c, "stm32_target", <<"stm32l4x.cfg">>))
    @@ ("ELF_NAME" :> ResolveElfName(c, cm))
    @@ ("SVD_FILE" :> Get(c, "svd_file", <<>>))
    @@ ("KILL_OPENOCD_CMD" :> KillCmd(sys))
    @@ ("KILL_OPENOCD_ARGS" :> KillArgs(sys))

----------------------------------------------------------------------------
(* replace_placeholders                                                    *)

\* whether the placeholder ${k} starts at position i of t
PlaceholderAt(t, i, k) ==
    i >= 1 /\ i + 2 <= Len(t) /\ t[i] = "${" /\ t[i + 1] = k /\ t[i + 2] = "}"

\* text.replace('${' + k + '}', v) from position from on, occ being the positions
\* at which ${k} starts: the leftmost occurrence is replaced, and the search
\* goes on behind it
RECURSIVE ReplaceAfter(_, _, _, _)
ReplaceAfter(t, from, occ, v) ==
    LET ahead == {i \in occ : i >= from}
    IN IF ahead = {} THEN SubSeq(t, from, Len(t))
       ELSE LET i == CHOOSE x \in ahead : \A y \in ahead : x <= y
            IN SubSeq(t, from, i - 1) \o v \o ReplaceAfter(t, i + 3, occ, v)

StrReplace(t, k, v) ==
    ReplaceAfter(t, 1, {i \in 1..(Len(t) - 2) : PlaceholderAt(t, i, k)}, v)

\* the loop of lines 316-317 from the i-th key of the mapping on
RECURSIVE ReplaceFrom(_, _, _, _)
ReplaceFrom(t, keys, m, i) ==
    IF i > Len(keys) THEN t
    ELSE ReplaceFrom(StrReplace(t, keys[i], m[keys[i]]), keys, m, i + 1)

\* a strict engine: what is still a placeholder after the loop is blanked
RECURSIVE BlankPlaceholders(_)
BlankPlaceholders(t) ==
    IF t = <<>> THEN <<>>
    ELSE IF Len(t) >= 3 /\ t[1] = "${" /\ t[3] = "}"
         THEN BlankPlaceholders(SubSeq(t, 4, Len(t)))
         ELSE <<Head(t)>> \o BlankPlaceholders(Tail(t))

replace_placeholders_Strict(t, keys, m) == BlankPlaceholders(ReplaceFrom(t, keys, m, 1))

\* lines 315-318; keys is the iteration order of mapping.items()
replace_placeholders(t, keys, m) == ReplaceFrom(t, keys, m, 1)

----------------------------------------------------------------------------
(* The embedded templates (lines 30-276).  A run of whitespace in the      *)
(* literal text of a template is written as one space.                     *)

TEMPLATES == <<"c_cpp_properties.json", "launch.json", "tasks.json", "extensions.json">>

Template_c_cpp_properties ==
    <<"{ \"configurations\": [ { \"name\": \"Auto\", \"includePath\": [ \"", "${",
      "workspaceFolder", "}", "/**\" ], \"defines\": [ \"", "${", "STM32_DEVICE", "}",
      "\", \"USE_HAL_DRIVER\" ], \"compilerPath\": \"", "${", "TOOLCHAIN_GCC", "}",
      "\", \"cStandard\": \"c11\", \"cppStandard\": \"c++17\", \"intelliSenseMode\": \"gcc-arm\", \"compileCommands\": \"",
      "${", "COMPILE_COMMANDS", "}",
      "\", \"configurationProvider\": \"ms-vscode.cmake-tools\" } ], \"version\": 4 } ">>

Template_launch ==
    <<"{ \"version\": \"0.2.0\", \"configurations\": [ { \"name\": \"Debug (OpenOCD)\", \"type\": \"cortex-debug\", \"request\": \"launch\", \"executable\": \"",
      "${", "workspaceFolder", "}", "/", "${", "BUILD_DIR", "}", "/Debug/", "${", "ELF_NAME",
      "}", ".elf\", \"servertype\": \"openocd\", \"gdbPath\": \"", "${", "GDB_PATH", "}",
      "\", \"configFiles\": [ \"interface/stlink.cfg\", \"target/", "${", "STM32_TARGET", "}",
      "\" ], \"runToEntryPoint\": \"main\", \"svdFile\": \"", "${", "SVD_FILE", "}",
      "\", \"preLaunchTask\": \"CMake: Build (Debug)\", \"postDebugTask\": \"Kill OpenOCD\" }, { \"name\": \"Attach (OpenOCD)\", \"type\": \"cortex-debug\", \"request\": \"attach\", \"executable\": \"",
      "${", "workspaceFolder", "}", "/", "${", "BUILD_DIR", "}", "/Debug/", "${", "ELF_NAME",
      "}", ".elf\", \"servertype\": \"openocd\", \"gdbPath\": \"", "${", "GDB_PATH", "}",
      "\", \"configFiles\": [ \"interface/stlink.cfg\", \"target/", "${", "STM32_TARGET", "}",
      "\" ], \"svdFile\": \"", "${", "SVD_FILE", "}",
      "\", \"preLaunchTask\": \"CMake: Build (Debug)\", \"postDebugTask\": \"Kill OpenOCD\" } ] } ">>

Template_tasks ==
    <<"{ \"version\": \"2.0.0\", \"tasks\": [ { \"label\": \"CMake: Configure (Debug)\", \"type\": \"shell\", \"command\": \"cmake\", \"args\": [ \"--preset\", \"Debug\" ], \"group\": \"build\", \"problemMatcher\": [], \"options\": { \"env\": { \"PATH\": \"",
      "${", "TOOLCHAIN_BIN_PATH", "}", ":", "${", "env:PATH", "}",
      "\" } } }, { \"label\": \"CMake: Build (Debug)\", \"type\": \"shell\", \"command\": \"cmake\", \"args\": [ \"--build\", \"",
      "${", "workspaceFolder", "}", "/", "${", "BUILD_DIR", "}",
      "/Debug\", \"--config\", \"Debug\", \"--target\", \"all\", \"-j\", \"10\", \"--verbose\" ], \"group\": { \"kind\": \"build\", \"isDefault\": true }, \"problemMatcher\": [ \"$gcc\" ], \"dependsOn\": [ \"CMake: Configure (Debug)\" ], \"options\": { \"env\": { \"PATH\": \"",
      "${", "TOOLCHAIN_BIN_PATH", "}", ":", "${", "env:PATH", "}",
      "\" } } }, { \"label\": \"CMake: Clean\", \"type\": \"shell\", \"command\": \"cmake\", \"args\": [ \"--build\", \"",
      "${", "workspaceFolder", "}", "/", "${", "BUILD_DIR", "}",
      "/Debug\", \"--target\", \"clean\" ], \"group\": \"build\", \"problemMatcher\": [], \"options\": { \"env\": { \"PATH\": \"",
      "${", "TOOLCHAIN_BIN_PATH", "}", ":", "${", "env:PATH", "}",
      "\" } } }, { \"label\": \"CMake: Configure (Release)\", \"type\": \"shell\", \"command\": \"cmake\", \"args\": [ \"--preset\", \"Release\" ], \"group\": \"build\", \"problemMatcher\": [], \"options\": { \"env\": { \"PATH\": \"",
      "${", "TOOLCHAIN_BIN_PATH", "}", ":", "${", "env:PATH", "}",
      "\" } } }, { \"label\": \"CMake: Build (Release)\", \"type\": \"shell\", \"command\": \"cmake\", \"args\": [ \"--build\", \"",
      "${", "workspaceFolder", "}", "/", "${", "BUILD_DIR", "}",
      "/Release\", \"--config\", \"Release\", \"--target\", \"all\", \"-j\", \"10\" ], \"group\": \"build\", \"problemMatcher\": [ \"$gcc\" ], \"dependsOn\": [ \"CMake: Configure (Release)\" ], \"options\": { \"env\": { \"PATH\": \"",
      "${", "TOOLCHAIN_BIN_PATH", "}", ":", "${", "env:PATH", "}",
      "\" } } }, { \"label\": \"Flash Firmware (Debug)\", \"type\": \"shell\", \"command\": \"",
      "${", "OPENOCD_PATH", "}",
      "\", \"args\": [ \"-f\", \"interface/stlink.cfg\", \"-f\", \"target/", "${",
      "STM32_TARGET", "}", "\", \"-c\", \"program ", "${", "BUILD_DIR", "}", "/Debug/", "${",
      "ELF_NAME", "}",
      ".hex reset exit\" ], \"group\": \"build\", \"problemMatcher\": [], \"dependsOn\": [ \"CMake: Build (Debug)\" ], \"options\": { \"cwd\": \"",
      "${", "workspaceFolder", "}",
      "\" } }, { \"label\": \"Flash Firmware (Release)\", \"type\": \"shell\", \"command\": \"",
      "${", "OPENOCD_PATH", "}",
      "\", \"args\": [ \"-f\", \"interface/stlink.cfg\", \"-f\", \"target/", "${",
      "STM32_TARGET", "}", "\", \"-c\", \"program ", "${", "BUILD_DIR", "}", "/Release/", "${",
      "ELF_NAME", "}",
      ".hex reset exit\" ], \"group\": \"build\", \"problemMatcher\": [], \"dependsOn\": [ \"CMake: Build (Release)\" ], \"options\": { \"cwd\": \"",
      "${", "workspaceFolder", "}",
      "\" } } , { \"label\": \"Kill OpenOCD\", \"type\": \"shell\", \"command\": \"", "${",
      "KILL_OPENOCD_CMD", "}", "\", \"args\": [", "${", "KILL_OPENOCD_ARGS", "}",
      "], \"problemMatcher\": [] } ] } ">>

Template_extensions ==
    <<"{ \"recommendations\": [ \"ms-vscode.cpptools\", \"ms-vscode.cmake-tools\", \"marus25.cortex-debug\", \"ms-vscode.hexeditor\" ], \"unwantedRecommendations\": [] } ">>

EMBED_TEMPLATES ==
    ("c_cpp_properties.json" :> Template_c_cpp_properties)
    @@ ("launch.json" :> Template_launch)
    @@ ("tasks.json" :> Template_tasks)
    @@ ("extensions.json" :> Template_extensions)

----------------------------------------------------------------------------
(* The filesystem under ROOT.  A path is the sequence of its components    *)
(* below ROOT; platform.json and CMakeLists.txt, which lie directly in     *)
(* ROOT, are the variables platformFile and cmakeFile.                     *)

\* the components os.path.join(ROOT, v) adds below ROOT, for a relative path v
\* without ".." (the paths the model draws for build_dir)
Components(v) == SelectSeq(v, LAMBDA t : t # "/")

\* line 331: vscode_dir
VSCODE == <<".vscode">>

\* line 324: the default of build_dir_base
DefaultBuildDirBase == <<"build">>

\* lines 324-325: debug_build_dir
DebugBuildDir(c) == Components(Get(c, "build_dir", DefaultBuildDirBase)) \o <<"Debug">>

\* os.path.exists
Exists(ds, fs, p) == p \in ds \/ p \in DOMAIN fs

\* shutil.rmtree(p): what is left of the directories and of the files
RmtreeDirs(ds, p) == {d \in ds : ~IsPrefix(p, d)}
RmtreeFiles(fs, p) == [f \in {g \in DOMAIN fs : ~IsPrefix(p, g)} |-> fs[f]]

\* the entries of os.listdir(d) for which os.path.isfile holds
PlainFilesIn(fs, d) == {f \in DOMAIN fs : Len(f) = Len(d) + 1 /\ IsPrefix(d, f)}

RemovePlainFiles_GeneratedOnly(fs, d) ==
    [f \in (DOMAIN fs) \ {g \in PlainFilesIn(fs, d) : g[Len(g)] \in
                             {"c_cpp_properties.json", "launch.json", "tasks.json",
                              "extensions.json"}} |-> fs[f]]

\* lines 334-337: the files left once every plain file directly in d is removed
RemovePlainFiles(fs, d) == [f \in (DOMAIN fs) \ PlainFilesIn(fs, d) |-> fs[f]]

MakedirsRaises_NoExistOk(ds, fs, p) == p \in ds \/ p \in DOMAIN fs

\* line 339: os.makedirs(p, exist_ok=True) raises only when p is a plain file
MakedirsRaises(ds, fs, p) == p \in DOMAIN fs

\* open(path, 'w') and f.write(content)
WriteFile(fs, path, content) ==
    [f \in (DOMAIN fs) \cup {path} |-> IF f = path THEN content ELSE fs[f]]

----------------------------------------------------------------------------
(* main (lines 320-397), one action for each step of it.                   *)

Unset == [set |-> FALSE, keys |-> <<>>, val |-> EmptyMap]

NextPc_ResolveFirst(p) ==
    CASE p = "load" -> "resolve"
      [] p = "resolve" -> "remove_debug"
      [] p = "remove_debug" -> "clean_vscode"
      [] p = "clean_vscode" -> "write"
      [] p = "write" -> "idle"

\* the order of the steps of main: the position that follows position p
NextPc(p) ==
    CASE p = "load" -> "remove_debug"
      [] p = "remove_debug" -> "clean_vscode"
      [] p = "clean_vscode" -> "resolve"
      [] p = "resolve" -> "write"
      [] p = "write" -> "idle"

\* an uncaught exception ends the run: the interpreter exits with status 1
Abort ==
    /\ pc' = "idle"
    /\ exitStatus' = 1
    /\ runs' = runs + 1

\* line 321: cfg = load_platform_config()
MainLoad ==
    /\ pc = "idle"
    /\ runs < MaxRuns
    /\ dirs0' = dirs
    /\ files0' = files
    /\ prevOut' = [exit |-> exitStatus,
                   out |-> [f \in PlainFilesIn(files, VSCODE) |-> files[f]]]
    /\ debug_build_dir' = <<>>
    /\ mapping' = Unset
    /\ ti' = 1
    /\ text' = <<>>
    /\ new_text' = <<>>
    /\ LET r == load_platform_config(platformFile, sysname)
       IN IF r.raised
          THEN Abort /\ cfg' = None
          ELSE /\ cfg' = r.ret
               /\ pc' = NextPc("load")
               /\ UNCHANGED <<exitStatus, runs>>
    /\ UNCHANGED <<platformFile, sysname, cmakeFile, dirs, files>>

\* lines 324-328: remove the Debug build directory if it exists
MainRemoveDebug ==
    /\ pc = "remove_debug"
    /\ IF ~cfg.some
       THEN \* cfg.get on None raises AttributeError
            Abort /\ UNCHANGED <<dirs, files, debug_build_dir>>
       ELSE LET d == DebugBuildDir(cfg.val)
            IN /\ debug_build_dir' = d
               /\ IF d \in DOMAIN files
                  THEN \* shutil.rmtree on a plain file raises NotADirectoryError
                       Abort /\ UNCHANGED <<dirs, files>>
                  ELSE /\ dirs' = IF Exists(dirs, files, d) THEN RmtreeDirs(dirs, d) ELSE dirs
                       /\ files' = IF Exists(dirs, files, d) THEN RmtreeFiles(files, d)
                                   ELSE files
                       /\ pc' = NextPc("remove_debug")
                       /\ UNCHANGED <<exitStatus, runs>>
    /\ UNCHANGED <<platformFile, sysname, cmakeFile, cfg, mapping, ti, text, new_text,
                   dirs0, files0, prevOut>>

\* lines 331-339: remove the plain files of .vscode and make sure it exists
MainCleanVscode ==
    /\ pc = "clean_vscode"
    /\ IF VSCODE \in DOMAIN files
       THEN \* os.listdir on a plain file raises NotADirectoryError
            Abort /\ UNCHANGED <<dirs, files>>
       ELSE LET left == IF VSCODE \in dirs THEN RemovePlainFiles(files, VSCODE) ELSE files
            IN /\ files' = left
               /\ IF MakedirsRaises(dirs, left, VSCODE)
                  THEN Abort /\ UNCHANGED dirs
                  ELSE /\ dirs' = dirs \cup {VSCODE}
                       /\ pc' = NextPc("clean_vscode")
                       /\ UNCHANGED <<exitStatus, runs>>
    /\ UNCHANGED <<platformFile, sysname, cmakeFile, cfg, debug_build_dir, mapping, ti,
                   text, new_text, dirs0, files0, prevOut>>

\* lines 341-384: resolve the values and build mapping
MainResolve ==
    /\ pc = "resolve"
    /\ IF ~cfg.some \/ ResolveRaises(cfg.val, cmakeFile)
       THEN Abort /\ UNCHANGED mapping
       ELSE /\ mapping' = [set |-> TRUE, keys |-> MappingKeys,
                           val |-> ResolveValues(cfg.val, cmakeFile, sysname)]
            /\ pc' = NextPc("resolve")
            /\ UNCHANGED <<exitStatus, runs>>
    /\ UNCHANGED <<platformFile, sysname, cmakeFile, dirs, files, cfg, debug_build_dir, ti,
                   text, new_text, dirs0, files0, prevOut>>

\* lines 386-397: one pass of the loop over TEMPLATES; the last pass ends the run
MainWrite ==
    /\ pc = "write"
    /\ LET name == TEMPLATES[ti]
           template == EMBED_TEMPLATES[name]
           out == replace_placeholders(template, mapping.keys, mapping.val)
           path == VSCODE \o <<name>>
       IN /\ text' = template
          /\ new_text' = out
          /\ IF path \in dirs
             THEN \* open(path, 'w') on a directory raises IsADirectoryError
                  Abort /\ UNCHANGED <<files, ti>>
             ELSE /\ files' = WriteFile(files, path, new_text')
                  /\ IF ti < Len(TEMPLATES)
                     THEN /\ ti' = ti + 1
                          /\ UNCHANGED <<pc, exitStatus, runs>>
                     ELSE /\ ti' = ti
                          /\ pc' = NextPc("write")
                          /\ exitStatus' = 0
                          /\ runs' = runs + 1
    /\ UNCHANGED <<platformFile, sysname, cmakeFile, dirs, cfg, debug_build_dir, mapping,
                   dirs0, files0, prevOut>>

----------------------------------------------------------------------------
(* The runs of the generator: Spec.                                        *)

Dir(p) == {SubSeq(p, 1, k) : k \in 1..Len(p)}
Tree(ds, fs) == [dirs |-> UNION {Dir(d) : d \in ds}, files |-> fs]

\* what the model may find under ROOT before the first run
FsItems ==
    { Tree({VSCODE}, (<<".vscode", "launch.json">> :> <<"stale">>)),
      Tree({VSCODE}, (<<".vscode", "settings.json">> :> <<"user settings">>)),
      Tree({<<".vscode", "sub">>}, (<<".vscode", "sub", "keep.txt">> :> <<"keep">>)),
      Tree({<<".vscode", "Debug">>}, (<<".vscode", "Debug", "app.elf">> :> <<"elf">>)),
      Tree({<<"build", "Debug">>}, (<<"build", "Debug", "app.elf">> :> <<"elf">>)),
      Tree({<<"build", "Debug", "Debug">>},
           (<<"build", "Debug", "Debug", "app.elf">> :> <<"elf">>)) }

MergeFiles(S) ==
    [p \in UNION {DOMAIN i.files : i \in S} |->
        (CHOOSE i \in S : p \in DOMAIN i.files).files[p]]

\* the sub-profiles of the documents the runs read
RunProfiles ==
    ("linux" :> { EmptyMap,
                  FullProfile("linux"),
                  Profile("linux", {"build_dir"}, <<".vscode">>, <<>>),
                  Profile("linux", {"build_dir", "toolchain_gcc", "elf_name"},
                          <<"build">>, <<>>) })
    @@ ("windows" :> { FullProfile("windows") })

RunDocuments ==
    {Missing, Malformed, JsonArray} \cup Documents({"linux", "windows"}, RunProfiles)

RunSysNames ==
    { <<"L", "i", "n", "u", "x">>, <<"W", "i", "n", "d", "o", "w", "s">>,
      <<"D", "a", "r", "w", "i", "n">> }

RunCmakes ==
    { CmakeAbsent, CmakeUndecodable,
      CmakeText(<<SetStmt(<<"StepperDEV">>, FALSE), ProjectStmt(VariableRef, FALSE, FALSE)>>) }

NoRun ==
    /\ pc = "idle"
    /\ cfg = None
    /\ debug_build_dir = <<>>
    /\ mapping = Unset
    /\ ti = 1
    /\ text = <<>>
    /\ new_text = <<>>
    /\ runs = 0
    /\ exitStatus = -1
    /\ dirs0 = dirs
    /\ files0 = files
    /\ prevOut = [exit |-> -1, out |-> EmptyMap]

Init ==
    /\ platformFile \in RunDocuments
    /\ sysname \in RunSysNames
    /\ cmakeFile \in RunCmakes
    /\ \E S \in SUBSET FsItems :
         /\ dirs = UNION {i.dirs : i \in S}
         /\ files = MergeFiles(S)
    /\ NoRun

Next ==
    \/ MainLoad
    \/ MainRemoveDebug
    \/ MainCleanVscode
    \/ MainResolve
    \/ MainWrite

Spec == Init /\ [][Next]_vars

----------------------------------------------------------------------------
(* load_platform_config alone: SpecLoad.                                   *)

\* what the variables of main hold while a single function is applied
NoMain ==
    /\ dirs = {}
    /\ files = EmptyMap
    /\ debug_build_dir = <<>>
    /\ ti = 1
    /\ runs = 0
    /\ exitStatus = -1
    /\ dirs0 = {}
    /\ files0 = EmptyMap
    /\ prevOut = [exit |-> -1, out |-> EmptyMap]

LoadProfiles == [k \in OsKeys |-> {EmptyMap, FullProfile(k)}]

LoadDocuments == {Missing, Malformed, JsonArray} \cup Documents(OsKeys, LoadProfiles)

InitLoad ==
    /\ platformFile \in LoadDocuments
    /\ sysname \in SysNames
    /\ cmakeFile = CmakeAbsent
    /\ pc = "call_load"
    /\ cfg = None
    /\ mapping = Unset
    /\ text = <<>>
    /\ new_text = <<>>
    /\ NoMain

CallLoad ==
    /\ pc = "call_load"
    /\ LET r == load_platform_config(platformFile, sysname)
       IN /\ cfg' = r.ret
          /\ pc' = IF r.raised THEN "load_raised" ELSE "load_returned"
    /\ UNCHANGED <<platformFile, sysname, cmakeFile, dirs, files, debug_build_dir, mapping,
                   ti, text, new_text, runs, exitStatus, dirs0, files0, prevOut>>

NextLoad == CallLoad

SpecLoad == InitLoad /\ [][NextLoad]_vars

----------------------------------------------------------------------------
(* The value resolver alone: SpecResolve.                                  *)

\* every sub-profile over the fields, with either build directory base and
\* with an empty and a non-empty executable name
AllProfiles ==
    { Profile("linux", D, bd, elf) :
        D \in SUBSET Fields, bd \in {<<"build">>, <<".vscode">>}, elf \in ElfNameValues }

\* sub-profiles that give no executable name, and one that gives it
DetectProfiles ==
    { EmptyMap,
      Profile("linux", {"elf_name"}, <<>>, <<>>),
      Profile("linux", Fields \ {"elf_name"}, <<"build">>, <<>>),
      FullProfile("linux") }

InitResolve ==
    /\ platformFile = Missing
    /\ \/ /\ cfg \in {Some(c) : c \in AllProfiles}
          /\ sysname \in {<<"L", "i", "n", "u", "x">>, <<"W", "i", "n", "d", "o", "w", "s">>}
          /\ cmakeFile \in {CmakeAbsent, CmakeText(<<ProjectStmt(<<"blinky">>, FALSE, FALSE)>>)}
       \/ /\ cfg \in {Some(c) : c \in DetectProfiles}
          /\ sysname = <<"L", "i", "n", "u", "x">>
          /\ cmakeFile \in {CmakeAbsent, CmakeUndecodable} \cup CmakeTexts(MaxStmts)
    /\ pc = "call_resolve"
    /\ mapping = Unset
    /\ text = <<>>
    /\ new_text = <<>>
    /\ NoMain

CallResolve ==
    /\ pc = "call_resolve"
    /\ IF ResolveRaises(cfg.val, cmakeFile)
       THEN pc' = "resolve_raised" /\ UNCHANGED mapping
       ELSE /\ mapping' = [set |-> TRUE, keys |-> MappingKeys,
                           val |-> ResolveValues(cfg.val, cmakeFile, sysname)]
            /\ pc' = "resolve_returned"
    /\ UNCHANGED <<platformFile, sysname, cmakeFile, dirs, files, cfg, debug_build_dir,
                   ti, text, new_text, runs, exitStatus, dirs0, files0, prevOut>>

NextResolve == CallResolve

SpecResolve == InitResolve /\ [][NextResolve]_vars

----------------------------------------------------------------------------
(* replace_placeholders alone: SpecReplace.                                *)

\* the keys of ks (a set) in the order of MappingKeys
KeysIn(ks) == SelectSeq(MappingKeys, LAMBDA k : k \in ks)

AllKeys == {MappingKeys[i] : i \in 1..Len(MappingKeys)}

\* line 226-232 of .vscode/generate_vscode.py: the keys of the older variant
OldKeys == {"TOOLCHAIN_GCC", "GDB_PATH", "OPENOCD_PATH", "BUILD_DIR", "COMPILE_COMMANDS"}

ReplaceKeySets ==
    {AllKeys, OldKeys, {}} \cup {AllKeys \ {k} : k \in AllKeys} \cup {{k} : k \in AllKeys}

\* a sub-profile whose values hold placeholders themselves
NestedProfile ==
    ("toolchain_gcc" :> <<"${", "GDB_PATH", "}", "/", "gcc">>)
    @@ ("gdb" :> <<"${", "workspaceFolder", "}", "/", "gdb">>)
    @@ ("elf_name" :> <<"${", "ELF_NAME", "}", "_", "${", "unknown", "}">>)
    @@ ("svd_file" :> <<"${", "ELF_NAME", "}", ".svd">>)

ReplaceProfiles == {EmptyMap, FullProfile("linux"), FullProfile("windows"), NestedProfile}

\* texts beside the templates: a placeholder no mapping knows, and the pieces
\* of a placeholder that is never closed
ReplaceTexts ==
    { Template_c_cpp_properties, Template_launch, Template_tasks, Template_extensions,
      <<"a ", "${", "UNKNOWN", "}", " b ", "${", "ELF_NAME", "}", "${", "ELF_NAME", "}",
        "${", "env:PATH", "}">>,
      <<"${", "ELF_NAME", " ", "${", "${", "GDB_PATH", "}", "}", "GDB_PATH", "${">>,
      <<>> }

InitReplace ==
    /\ platformFile = Missing
    /\ cmakeFile = CmakeAbsent
    /\ cfg \in {Some(c) : c \in ReplaceProfiles}
    /\ sysname \in {<<"L", "i", "n", "u", "x">>, <<"W", "i", "n", "d", "o", "w", "s">>}
    /\ \E ks \in ReplaceKeySets :
         mapping = [set |-> TRUE, keys |-> KeysIn(ks),
                    val |-> [k \in ks |-> ResolveValues(cfg.val, cmakeFile, sysname)[k]]]
    /\ text \in ReplaceTexts
    /\ new_text = <<>>
    /\ pc = "call_replace"
    /\ NoMain

CallReplace ==
    /\ pc = "call_replace"
    /\ new_text' = replace_placeholders(text, mapping.keys, mapping.val)
    /\ pc' = "replace_returned"
    /\ UNCHANGED <<platformFile, sysname, cmakeFile, dirs, files, cfg, debug_build_dir,
                   mapping, ti, text, runs, exitStatus, dirs0, files0, prevOut>>

NextReplace == CallReplace

SpecReplace == InitReplace /\ [][NextReplace]_vars

----------------------------------------------------------------------------
(* The claims.                                                             *)

VscodeFiles(fs) == [f \in PlainFilesIn(fs, VSCODE) |-> fs[f]]

TemplateNames == {TEMPLATES[i] : i \in 1..Len(TEMPLATES)}

OutputPaths == {VSCODE \o <<n>> : n \in TemplateNames}

RunEnded == pc = "idle" /\ runs >= 1

(* C1: when a run that completed is followed by a second run on the same   *)
(* profile document, build description and host, the second run completes *)
(* too and leaves the same plain files with the same content in the output *)
(* directory as the first run left.                                        *)
C1_Idempotent ==
    (RunEnded /\ runs >= 2 /\ prevOut.exit = 0) =>
        /\ exitStatus = 0
        /\ VscodeFiles(files) = prevOut.out
        /\ DOMAIN prevOut.out = OutputPaths

C1_Witness ==
    /\ RunEnded /\ runs = 2 /\ prevOut.exit = 0 /\ exitStatus = 0
    /\ DOMAIN VscodeFiles(files) = OutputPaths
    /\ VscodeFiles(files) = prevOut.out
    /\ <<".vscode", "sub">> \in dirs

(* C2: for a document whose keys are exactly linux and windows,            *)
(* load_platform_config returns the windows sub-profile when the lowercased *)
(* host string contains "windows" and the linux sub-profile for every      *)
(* other host string.                                                      *)
C2_OsSelection ==
    (pc \in {"load_returned", "load_raised"}
     /\ platformFile.state = "object"
     /\ DOMAIN platformFile.doc = {"linux", "windows"}) =>
        /\ pc = "load_returned"
        /\ cfg = IF Contains(lower(sysname), WINDOWS)
                 THEN Some(platformFile.doc["windows"])
                 ELSE Some(platformFile.doc["linux"])

C2_Witness ==
    /\ pc = "load_returned"
    /\ DOMAIN platformFile.doc = {"linux", "windows"}
    /\ platformFile.doc["linux"] # platformFile.doc["windows"]
    /\ ~Contains(lower(sysname), WINDOWS)
    /\ ~Contains(lower(sysname), LINUX)
    /\ cfg = Some(platformFile.doc["linux"])

(* C4: when platform.json is missing or is not well-formed, the run ends   *)
(* with a nonzero status and the directories and files under ROOT are what *)
(* they were when the run started: nothing is removed, nothing is written. *)
C4_AbortBeforeMutation ==
    platformFile.state \in {"missing", "malformed"} =>
        /\ dirs = dirs0
        /\ files = files0
        /\ pc = "idle"
        /\ ~mapping.set
        /\ runs >= 1 => exitStatus = 1

C4_Witness ==
    /\ platformFile.state \in {"missing", "malformed"}
    /\ RunEnded /\ exitStatus = 1
    /\ <<"build", "Debug">> \in dirs
    /\ <<".vscode", "launch.json">> \in DOMAIN files
    /\ files[<<".vscode", "launch.json">>] = <<"stale">>

(* C5: a run on a platform.json that is a JSON object ends with status     *)
(* zero whichever OS keys the object holds or lacks (read with a           *)
(* CMakeLists.txt that is absent or readable).                             *)
C5_NeverFails ==
    (RunEnded /\ platformFile.state = "object" /\ cmakeFile.state # "undecodable") =>
        exitStatus = 0

\* the template t with every placeholder whose name is a key replaced, in one
\* pass from left to right, by the key's value as the keys behind it in the
\* mapping leave it; every other token of t, the placeholders of unknown
\* names among them, is kept as it is
Range(q) == {q[i] : i \in 1..Len(q)}

KeyPos(keys, k) == CHOOSE j \in 1..Len(keys) : keys[j] = k

Expansion(keys, m, k) == ReplaceFrom(m[k], keys, m, KeyPos(keys, k) + 1)

RECURSIVE SplicedFrom(_, _, _, _, _)
SplicedFrom(t, from, occ, keys, m) ==
    LET ahead == {i \in occ : i >= from}
    IN IF ahead = {} THEN SubSeq(t, from, Len(t))
       ELSE LET i == CHOOSE x \in ahead : \A y \in ahead : x <= y
            IN SubSeq(t, from, i - 1) \o Expansion(keys, m, t[i + 1])
               \o SplicedFrom(t, i + 3, occ, keys, m)

Spliced(t, keys, m) ==
    SplicedFrom(t, 1,
                {i \in 1..(Len(t) - 2) :
                    t[i] = "${" /\ t[i + 2] = "}" /\ t[i + 1] \in Range(keys)},
                keys, m)

\* the names of the placeholders of a text
PlaceholderNames(t) ==
    {t[i + 1] : i \in {j \in 1..(Len(t) - 2) : t[j] = "${" /\ t[j + 2] = "}"}}

\* the variables the editor resolves itself
EditorNative == {"workspaceFolder", "env:PATH"}

GeneratorPlaceholders ==
    UNION {PlaceholderNames(EMBED_TEMPLATES[n]) : n \in TemplateNames} \ EditorNative

\* a subdirectory of .vscode and what lies in it
UnderVscode(p) == Len(p) >= 2 /\ IsPrefix(VSCODE, p)
InsideSubdir(p) == Len(p) >= 3 /\ IsPrefix(VSCODE, p)

\* the subdirectories of .vscode and what they hold, but for the
\* subdirectory that is the directory skip or holds it
SubdirDirs(ds, skip) == {d \in ds : UnderVscode(d) /\ ~IsPrefix(SubSeq(d, 1, 2), skip)}
SubdirFiles(fs, skip) ==
    [f \in {g \in DOMAIN fs : InsideSubdir(g) /\ ~IsPrefix(SubSeq(g, 1, 2), skip)} |-> fs[f]]

\* no directory to skip
Nothing == <<>>

RunCompleted == RunEnded /\ exitStatus = 0

StaleFilesGone ==
    \A f \in PlainFilesIn(files0, VSCODE) : f[Len(f)] \notin TemplateNames => f \notin DOMAIN files

OutputsWritten ==
    \A n \in TemplateNames :
        /\ VSCODE \o <<n>> \in DOMAIN files
        /\ files[VSCODE \o <<n>>] = Spliced(EMBED_TEMPLATES[n], mapping.keys, mapping.val)

(* C3 as claimed: after a run that completed, every plain file that was    *)
(* directly inside .vscode and is not named like a template is gone, every *)
(* subdirectory of .vscode with all it holds is as it was before the run,  *)
(* and the four output files hold the substituted templates.               *)
C3_AsClaimed ==
    RunCompleted =>
        /\ StaleFilesGone
        /\ SubdirDirs(dirs, Nothing) = SubdirDirs(dirs0, Nothing)
        /\ SubdirFiles(files, Nothing) = SubdirFiles(files0, Nothing)
        /\ OutputsWritten

(* C3 as amended: the same, for every subdirectory of .vscode that neither *)
(* is nor holds the build Debug directory ROOT/<build_dir>/Debug, which    *)
(* the run removes wherever it lies.                                       *)
C3_DestructiveReset ==
    RunCompleted =>
        /\ StaleFilesGone
        /\ SubdirDirs(dirs, debug_build_dir) = SubdirDirs(dirs0, debug_build_dir)
        /\ SubdirFiles(files, debug_build_dir) = SubdirFiles(files0, debug_build_dir)
        /\ OutputsWritten

C3_Witness ==
    /\ RunCompleted /\ runs = 1
    /\ <<".vscode", "settings.json">> \in DOMAIN files0
    /\ <<".vscode", "settings.json">> \notin DOMAIN files
    /\ <<".vscode", "launch.json">> \in DOMAIN files0
    /\ files[<<".vscode", "launch.json">>] # files0[<<".vscode", "launch.json">>]
    /\ <<".vscode", "sub", "keep.txt">> \in DOMAIN files0
    /\ <<".vscode", "sub", "keep.txt">> \in DOMAIN files
    /\ <<".vscode", "Debug">> \in dirs0
    /\ <<".vscode", "Debug">> \notin dirs

(* C6: for every sub-profile, the empty one included, value resolution     *)
(* returns (given a CMakeLists.txt that is absent or readable), and the    *)
(* mapping has an entry for every generator placeholder of the embedded    *)
(* templates; an absent field takes its default: STM32L476xx,              *)
(* stm32l4x.cfg, and for the executable name the detected one or firmware. *)
C6_CompleteMap ==
    (pc \in {"resolve_returned", "resolve_raised"} /\ cmakeFile.state # "undecodable") =>
        /\ pc = "resolve_returned"
        /\ GeneratorPlaceholders \subseteq DOMAIN mapping.val
        /\ \A k \in DOMAIN mapping.val : DOMAIN mapping.val[k] = 1..Len(mapping.val[k])
        /\ "stm32_device" \notin DOMAIN cfg.val => mapping.val["STM32_DEVICE"] = <<"STM32L476xx">>
        /\ "stm32_target" \notin DOMAIN cfg.val => mapping.val["STM32_TARGET"] = <<"stm32l4x.cfg">>
        /\ "elf_name" \notin DOMAIN cfg.val =>
              mapping.val["ELF_NAME"] =
                  IF detect_elf_name(cmakeFile).some THEN detect_elf_name(cmakeFile).val
                  ELSE <<"firmware">>
        /\ mapping.val["ELF_NAME"] # <<>>

C6_Witness ==
    /\ pc = "resolve_returned"
    /\ cfg.val = EmptyMap
    /\ cmakeFile.state = "absent"
    /\ mapping.val["ELF_NAME"] = <<"firmware">>
    /\ mapping.val["STM32_DEVICE"] = <<"STM32L476xx">>
    /\ DOMAIN mapping.val = GeneratorPlaceholders

\* the statements of the build description by their form
SetStmts == {i \in 1..Len(cmakeFile.stmts) : cmakeFile.stmts[i].kind = "set"}
ProjectStmts ==
    {i \in 1..Len(cmakeFile.stmts) :
        cmakeFile.stmts[i].kind = "project" /\ ~cmakeFile.stmts[i].extra}
First(S) == CHOOSE i \in S : \A j \in S : i <= j
IsBareLiteral(arg) == \A i \in 1..Len(arg) : arg[i] \notin {"${", "}"}
IsReference(arg) == Len(arg) = 3 /\ arg[1] = "${" /\ arg[3] = "}"

NoConfiguredName == Get(cfg.val, "elf_name", <<>>) = <<>>

(* C7: when the sub-profile gives no executable name, ELF_NAME is the      *)
(* argument of the first set(CMAKE_PROJECT_NAME x) when the text has one,  *)
(* wherever the project(...) invocations stand; the literal of the first   *)
(* project(y) when the text has no assignment and only bare literals in    *)
(* its project(y) invocations; and firmware when the invocations hold      *)
(* only references such as ${PROJECT_NAME}, when nothing matches and when  *)
(* the file is absent.                                                     *)
C7_DetectionPrecedence ==
    (pc = "resolve_returned" /\ NoConfiguredName) =>
        LET st == cmakeFile.stmts
            elf == mapping.val["ELF_NAME"]
        IN /\ cmakeFile.state = "absent" => elf = <<"firmware">>
           /\ (cmakeFile.state = "text" /\ SetStmts # {}) => elf = st[First(SetStmts)].arg
           /\ (cmakeFile.state = "text" /\ SetStmts = {} /\ ProjectStmts # {}
               /\ \A i \in ProjectStmts : IsBareLiteral(st[i].arg)) =>
                 elf = st[First(ProjectStmts)].arg
           /\ (cmakeFile.state = "text" /\ SetStmts = {} /\ ProjectStmts # {}
               /\ \A i \in ProjectStmts : IsReference(st[i].arg)) =>
                 elf = <<"firmware">>
           /\ (cmakeFile.state = "text" /\ SetStmts = {} /\ ProjectStmts = {}) =>
                 elf = <<"firmware">>

C7_Witness ==
    /\ pc = "resolve_returned" /\ NoConfiguredName
    /\ cmakeFile.state = "text"
    /\ Len(cmakeFile.stmts) = 2
    /\ cmakeFile.stmts[1].kind = "project" /\ IsBareLiteral(cmakeFile.stmts[1].arg)
    /\ ~cmakeFile.stmts[1].extra
    /\ cmakeFile.stmts[2].kind = "set"
    /\ mapping.val["ELF_NAME"] = cmakeFile.stmts[2].arg
    /\ mapping.val["ELF_NAME"] # cmakeFile.stmts[1].arg

(* C8: the result of replace_placeholders is the text with the             *)
(* placeholders whose names are keys of the mapping replaced and every     *)
(* other token kept: a placeholder of a name the mapping lacks, and the    *)
(* editor's ${workspaceFolder} and ${env:PATH}, stand in the result as     *)
(* they stand in the text.                                                 *)
C8_OnlyKnownReplaced ==
    pc = "replace_returned" =>
        /\ new_text = Spliced(text, mapping.keys, mapping.val)
        /\ PlaceholderNames(text) \ Range(mapping.keys) \subseteq PlaceholderNames(new_text)

C8_Witness ==
    /\ pc = "replace_returned"
    /\ "UNKNOWN" \in PlaceholderNames(text)
    /\ "ELF_NAME" \in Range(mapping.keys)
    /\ "env:PATH" \in PlaceholderNames(new_text)
    /\ "UNKNOWN" \in PlaceholderNames(new_text)
    /\ "ELF_NAME" \notin PlaceholderNames(new_text)
    /\ new_text # text

\* a step that removes a directory or a file
Removes == (dirs \ dirs' # {}) \/ ((DOMAIN files) \ (DOMAIN files') # {})

\* a step that writes a file
Writes == \E f \in DOMAIN files' : f \notin DOMAIN files \/ files'[f] # files[f]

(* C9 as claimed: no step removes a file or a directory before the         *)
(* resolved value map has been built.                                      *)
C9_AsClaimed == [][Removes => mapping.set]_vars

(* C9 as amended: the steps come in the order Profile Loader, Output       *)
(* Manager reset, Value Resolver, Template Substitution write.  Every      *)
(* removal comes after the sub-profile is loaded and before the value map  *)
(* is built; the map is built only once the reset is over; every write     *)
(* comes after the map is built; and a run that fails in value resolution  *)
(* ends with the previous output already removed.                          *)
C9_ResetBeforeResolve ==
    [][/\ Removes => (cfg.some /\ ~mapping.set /\ pc \in {"remove_debug", "clean_vscode"})
       /\ (~mapping.set /\ mapping'.set) =>
             /\ pc = "resolve"
             /\ VSCODE \in dirs
             /\ PlainFilesIn(files, VSCODE) = {}
             /\ ~Exists(dirs, files, debug_build_dir)
       /\ Writes => (mapping.set /\ pc = "write")
       /\ (pc = "resolve" /\ pc' = "idle") =>
             (exitStatus' = 1 /\ PlainFilesIn(files', VSCODE) = {})]_vars

C9_Witness ==
    /\ RunEnded /\ runs = 1 /\ exitStatus = 1
    /\ cfg.some /\ ~mapping.set
    /\ cmakeFile.state = "undecodable"
    /\ OutputPaths \cap DOMAIN files0 # {}
    /\ PlainFilesIn(files, VSCODE) = {}
    /\ <<"build", "Debug">> \in dirs0
    /\ <<"build", "Debug">> \notin dirs

(* C10: the directory the reset removes is the Debug sub-directory of the  *)
(* value substituted for ${BUILD_DIR}, the directory the generated tasks   *)
(* and launch files name as ${BUILD_DIR}/Debug.                            *)
C10_RemovedIsReferenced ==
    mapping.set => debug_build_dir = Components(mapping.val["BUILD_DIR"]) \o <<"Debug">>

(* C11: auto-detection never yields a reference of the form ${...} as a    *)
(* name: when the sub-profile gives no executable name and the build       *)
(* description is readable, detect_elf_name returns either no result or a  *)
(* name that is not a variable reference, whichever of the two patterns    *)
(* matched, and so ELF_NAME is not a variable reference either.            *)
C11_NoReferenceAsName ==
    (pc = "resolve_returned" /\ NoConfiguredName /\ cmakeFile.state = "text") =>
        /\ detect_elf_name(cmakeFile).some =>
              ~IsVariableReference(detect_elf_name(cmakeFile).val)
        /\ ~IsVariableReference(mapping.val["ELF_NAME"])

====
